---- MODULE Spec2Model ----
(***************************************************************************)
(* Model of colorful_emoji_annotations.main.EmojiAnnotator.                *)
(*                                                                         *)
(* Python strings (labels, emojis, texts) are sequences of characters; a   *)
(* character is a one-letter TLA+ string.  A Python dict is a sequence of  *)
(* <<key, value>> pairs with distinct keys, in insertion order.            *)
(***************************************************************************)
EXTENDS Integers, Sequences, FiniteSets, TLC

VARIABLES
    LABEL_EMOJI_MAPPING,   \* self.LABEL_EMOJI_MAPPING  (dict label -> emoji)
    EMOJI_LABEL_MAPPING,   \* self.EMOJI_LABEL_MAPPING  (dict emoji -> label)
    EMOJI_ANN_PATTERN,     \* self.EMOJI_ANN_PATTERN    (alternatives of the regex, in order)
    EMOJIS_IN_MAPPING,     \* self.EMOJIS_IN_MAPPING    (list of emojis)
    pc,                    \* position of the caller
    raised,                \* exception raised by the last operation, "" if none
    text,                  \* argument text of to_inline_annotations
    annotations,           \* argument annotations of to_inline_annotations
    marked,                \* argument annotated_text of from_inline_annotations
    ret_marked,            \* value returned by to_inline_annotations
    ret_text,              \* plain_text returned by from_inline_annotations
    ret_annotations        \* annotations returned by from_inline_annotations

vars == <<LABEL_EMOJI_MAPPING, EMOJI_LABEL_MAPPING, EMOJI_ANN_PATTERN,
          EMOJIS_IN_MAPPING, pc, raised, text, annotations, marked,
          ret_marked, ret_text, ret_annotations>>

call_vars == <<text, annotations, marked, ret_marked, ret_text, ret_annotations>>

mapping_vars == <<LABEL_EMOJI_MAPPING, EMOJI_LABEL_MAPPING, EMOJI_ANN_PATTERN,
                  EMOJIS_IN_MAPPING>>

-----------------------------------------------------------------------------
(* Bounds *)

\* longest plain text
TextLen == 3
\* most offsets in one annotation dict
MaxSpans == 2
\* most offsets in one annotation dict of the wide specification
WideSpans == 3
\* length of the plain text, and most offsets, where keys are labels, emojis and unknown keys
KeyTextLen == 2
KeySpans == 2
\* longest annotated text handed to the parser
MarkedLen == 6

-----------------------------------------------------------------------------
(* Alphabets *)

Labels == {<<"a">>, <<"b">>, <<"c">>}

\* the set EMOJIS read from emojis.txt: three one-character emojis and one
\* emoji that extends another by a modifier character (as a skin-tone or ZWJ
\* sequence extends its base emoji)
EMOJIS == {<<"A">>, <<"B">>, <<"C">>, <<"A", "m">>}

\* a value that is not an emoji
NotEmoji == <<"x">>

\* an annotation key that is neither label nor emoji of any mapping
UnknownKey == <<"q">>

Min(i, j) == IF i < j THEN i ELSE j

-----------------------------------------------------------------------------
(* Python dict as a sequence of <<key, value>> pairs *)

DictKeys(d) == [i \in 1..Len(d) |-> d[i][1]]

DictValues(d) == [i \in 1..Len(d) |-> d[i][2]]

KeySet(d) == {d[i][1] : i \in 1..Len(d)}

DictHas(d, k) == \E i \in 1..Len(d) : d[i][1] = k

DictGet(d, k) == d[CHOOSE i \in 1..Len(d) : d[i][1] = k][2]

DictSet(d, k, v) ==
    IF DictHas(d, k)
    THEN [i \in 1..Len(d) |-> IF d[i][1] = k THEN <<k, v>> ELSE d[i]]
    ELSE Append(d, <<k, v>>)

DictDel(d, k) == SelectSeq(d, LAMBDA e : e[1] # k)

\* dict equality of Python: same keys, same values, order of keys ignored
DictEq(d1, d2) ==
    /\ KeySet(d1) = KeySet(d2)
    /\ \A k \in KeySet(d1) : DictGet(d1, k) = DictGet(d2, k)

-----------------------------------------------------------------------------
(* Mapping: __init__, __getitem__, __setitem__, __delitem__ *)

is_emoji(char) == char \in EMOJIS

\* TRUE when _validate_emoji_mapping passes, FALSE when it raises ValueError
_validate_emoji_mapping(emoji_mapping) ==
    \A i \in 1..Len(emoji_mapping) : is_emoji(emoji_mapping[i][2])

\* {v: k for k, v in LABEL_EMOJI_MAPPING.items()}
RECURSIVE InvertMapping(_)
InvertMapping(d) ==
    IF d = <<>> THEN <<>>
    ELSE LET n == Len(d)
         IN  DictSet(InvertMapping(SubSeq(d, 1, n - 1)), d[n][2], d[n][1])

\* re.compile("|".join(keys)): the alternatives of the pattern, in order; the
\* join of no key is the empty pattern, whose one alternative is the empty string
CompilePattern(emoji_label) ==
    IF emoji_label = <<>> THEN << <<>> >> ELSE DictKeys(emoji_label)

__len__ == Len(LABEL_EMOJI_MAPPING)

\* the emoji of key, or "KeyError"
__getitem__(key) ==
    IF DictHas(LABEL_EMOJI_MAPPING, key)
    THEN DictGet(LABEL_EMOJI_MAPPING, key)
    ELSE "KeyError"

\* dictionaries a caller can hand to the constructor
RECURSIVE DictsOver(_, _)
DictsOver(keys, values) ==
    {<<>>} \cup
    UNION { { <<e>> \o d : d \in DictsOver(keys \ {e[1]}, values) } :
            e \in keys \X values }

Construct(emoji_mapping) ==
    /\ LABEL_EMOJI_MAPPING = emoji_mapping
    /\ EMOJI_LABEL_MAPPING = InvertMapping(emoji_mapping)
    /\ EMOJI_ANN_PATTERN = CompilePattern(InvertMapping(emoji_mapping))
    /\ EMOJIS_IN_MAPPING = DictValues(emoji_mapping)

\* a constructor call that raised: there is no object
NoObject ==
    /\ LABEL_EMOJI_MAPPING = <<>>
    /\ EMOJI_LABEL_MAPPING = <<>>
    /\ EMOJI_ANN_PATTERN = <<>>
    /\ EMOJIS_IN_MAPPING = <<>>

NoCall ==
    /\ text = <<>>
    /\ annotations = <<>>
    /\ marked = <<>>
    /\ ret_marked = <<>>
    /\ ret_text = <<>>
    /\ ret_annotations = <<>>

\* the values a caller hands to the constructor and to __setitem__: the
\* emojis of one character and a value that is no emoji
Values == {<<"A">>, <<"B">>, <<"C">>, NotEmoji}

Init ==
    \E emoji_mapping \in DictsOver(Labels, Values) :
        /\ IF _validate_emoji_mapping(emoji_mapping)
           THEN Construct(emoji_mapping) /\ pc = "ready" /\ raised = ""
           ELSE NoObject /\ pc = "failed" /\ raised = "ValueError"
        /\ NoCall

SetItem(key, value) ==
    /\ pc = "ready"
    /\ IF _validate_emoji_mapping(<< <<key, value>> >>)
       THEN /\ LABEL_EMOJI_MAPPING' = DictSet(LABEL_EMOJI_MAPPING, key, value)
            /\ raised' = ""
       ELSE /\ UNCHANGED LABEL_EMOJI_MAPPING
            /\ raised' = "ValueError"
    /\ UNCHANGED <<EMOJI_LABEL_MAPPING, EMOJI_ANN_PATTERN, EMOJIS_IN_MAPPING,
                   pc, call_vars>>

DelItem(key) ==
    /\ pc = "ready"
    /\ IF DictHas(LABEL_EMOJI_MAPPING, key)
       THEN /\ LABEL_EMOJI_MAPPING' = DictDel(LABEL_EMOJI_MAPPING, key)
            /\ raised' = ""
       ELSE /\ UNCHANGED LABEL_EMOJI_MAPPING
            /\ raised' = "KeyError"
    /\ UNCHANGED <<EMOJI_LABEL_MAPPING, EMOJI_ANN_PATTERN, EMOJIS_IN_MAPPING,
                   pc, call_vars>>

-----------------------------------------------------------------------------
(* to_inline_annotations *)

\* the value None of last_tag before the first iteration: equal to no tag
None == <<"N", "o", "n", "e">>

\* the key check without its elif: annotations keyed by emojis are refused
ResolveKeys_LabelsOnly(label_emoji, emoji_label, anns) ==
    IF \A i \in 1..Len(anns) : DictHas(label_emoji, anns[i][1]) THEN "labels"
    ELSE "ValueError"

\* which branch of the key check is taken: "labels", "emojis" or "ValueError"
ResolveKeys(label_emoji, emoji_label, anns) ==
    IF \A i \in 1..Len(anns) : DictHas(label_emoji, anns[i][1]) THEN "labels"
    ELSE IF \A i \in 1..Len(anns) : DictHas(emoji_label, anns[i][1]) THEN "emojis"
    ELSE "ValueError"

\* {LABEL_EMOJI_MAPPING[label]: offsets for label, offsets in annotations.items()}
RECURSIVE LabelsToEmojis(_, _)
LabelsToEmojis(label_emoji, anns) ==
    IF anns = <<>> THEN <<>>
    ELSE LET n == Len(anns)
         IN  DictSet(LabelsToEmojis(label_emoji, SubSeq(anns, 1, n - 1)),
                     DictGet(label_emoji, anns[n][1]), anns[n][2])

\* [(offset, tag) for offset in list(sum(ann, ()))]
RECURSIVE OffsetsWithTag(_, _)
OffsetsWithTag(tag, ann) ==
    IF ann = <<>> THEN <<>>
    ELSE << <<ann[1][1], tag>>, <<ann[1][2], tag>> >> \o OffsetsWithTag(tag, Tail(ann))

\* the loop over annotations.items() that builds ann_offsets_with_tags
RECURSIVE AllOffsetsWithTags(_)
AllOffsetsWithTags(anns) ==
    IF anns = <<>> THEN <<>>
    ELSE OffsetsWithTag(anns[1][1], anns[1][2]) \o AllOffsetsWithTags(Tail(anns))

\* key=lambda x: x[0]
KeyOffset(x) == x[1]

\* sorted(..., key=lambda x: x[0]): stable insertion of x into the sorted list s
RECURSIVE InsertByOffset(_, _)
InsertByOffset(s, x) ==
    IF s = <<>> THEN <<x>>
    ELSE IF KeyOffset(x) < KeyOffset(Head(s)) THEN <<x>> \o s
    ELSE <<Head(s)>> \o InsertByOffset(Tail(s), x)

RECURSIVE SortedByOffset(_)
SortedByOffset(s) ==
    IF s = <<>> THEN <<>>
    ELSE InsertByOffset(SortedByOffset(SubSeq(s, 1, Len(s) - 1)), s[Len(s)])

\* list(OrderedDict.fromkeys(tags)): first occurrences, in order
RECURSIVE Distinct(_)
Distinct(tags) ==
    IF tags = <<>> THEN <<>>
    ELSE LET n == Len(tags)
             front == Distinct(SubSeq(tags, 1, n - 1))
         IN  IF \E i \in 1..Len(front) : front[i] = tags[n] THEN front
             ELSE Append(front, tags[n])

\* tag_order.index(tag)
IndexOf(tag_order, tag) == CHOOSE i \in 1..Len(tag_order) : tag_order[i] = tag

TagOrder(offsets_with_tags) ==
    LET s == SortedByOffset(offsets_with_tags)
    IN  Distinct([i \in 1..Len(s) |-> s[i][2]])

\* key=lambda x: (x[0], tag_order.index(x[1])): the order of two keys
KeyGreater(tag_order, x, y) ==
    \/ x[1] > y[1]
    \/ x[1] = y[1] /\ IndexOf(tag_order, x[2]) > IndexOf(tag_order, y[2])

\* sorted(..., reverse=True): stable insertion of x into the list s sorted from large to small
RECURSIVE InsertLargeToSmall(_, _, _)
InsertLargeToSmall(tag_order, s, x) ==
    IF s = <<>> THEN <<x>>
    ELSE IF KeyGreater(tag_order, x, Head(s)) THEN <<x>> \o s
    ELSE <<Head(s)>> \o InsertLargeToSmall(tag_order, Tail(s), x)

RECURSIVE SortLargeToSmall(_, _)
SortLargeToSmall(tag_order, s) ==
    IF s = <<>> THEN <<>>
    ELSE InsertLargeToSmall(tag_order,
             SortLargeToSmall(tag_order, SubSeq(s, 1, Len(s) - 1)), s[Len(s)])

\* the two sorts of ann_offsets_with_tags
SortedLargeToSmall(offsets_with_tags) ==
    SortLargeToSmall(TagOrder(offsets_with_tags), SortedByOffset(offsets_with_tags))

\* text_ann[:offset] + tag + text_ann[offset:]
InsertTag(text_ann, offset, tag) ==
    LET cut == Min(offset, Len(text_ann))
    IN  SubSeq(text_ann, 1, cut) \o tag \o SubSeq(text_ann, cut + 1, Len(text_ann))

\* the condition of the elif without its second half: the tags are switched
\* whenever two tags have the same character offset
SameOffsetOnly(curr_offset, next_offset, last_tag, next_tag) ==
    curr_offset = next_offset

\* the condition of the elif: two tags have the same character offset and
\* the tag inserted before is the tag that follows
SameOffsetClosesActive(curr_offset, next_offset, last_tag, next_tag) ==
    curr_offset = next_offset /\ last_tag = next_tag

\* the for loop over zip(ann_offsets_with_tags[:-1], ann_offsets_with_tags[1:]),
\* from iteration i on; st holds text_ann, last_tag, last_offset, switched_tag_pos
RECURSIVE AnnotateLoop(_, _, _)
AnnotateLoop(lst, i, st) ==
    IF i > Len(lst) - 1 THEN st
    ELSE LET curr_offset == lst[i][1]
             curr_tag    == lst[i][2]
             next_offset == lst[i + 1][1]
             next_tag    == lst[i + 1][2]
             switch == /\ ~st.switched_tag_pos
                       /\ SameOffsetClosesActive(curr_offset, next_offset,
                                                 st.last_tag, next_tag)
             offset == IF st.switched_tag_pos THEN st.last_offset
                       ELSE IF switch THEN next_offset ELSE curr_offset
             tag    == IF st.switched_tag_pos THEN st.last_tag
                       ELSE IF switch THEN next_tag ELSE curr_tag
         IN  AnnotateLoop(lst, i + 1,
                 [text_ann         |-> InsertTag(st.text_ann, offset, tag),
                  last_tag         |-> curr_tag,
                  last_offset      |-> curr_offset,
                  switched_tag_pos |-> switch])

\* the result of to_inline_annotations: the exception raised ("" if none) and
\* the annotated text
ToInline(label_emoji, emoji_label, plain, anns) ==
    LET branch == ResolveKeys(label_emoji, emoji_label, anns)
        by_emoji == IF branch = "labels" THEN LabelsToEmojis(label_emoji, anns) ELSE anns
        lst == SortedLargeToSmall(AllOffsetsWithTags(by_emoji))
        st == AnnotateLoop(lst, 1,
                  [text_ann |-> plain, last_tag |-> None, last_offset |-> -1,
                   switched_tag_pos |-> FALSE])
        last == IF st.switched_tag_pos THEN lst[Len(lst) - 1] ELSE lst[Len(lst)]
    IN  IF branch = "ValueError"
        THEN [raised |-> "ValueError", text |-> <<>>]
        ELSE IF lst = <<>>
        THEN [raised |-> "UnboundLocalError", text |-> <<>>]
        ELSE [raised |-> "", text |-> InsertTag(st.text_ann, last[1], last[2])]

-----------------------------------------------------------------------------
(* from_inline_annotations *)

\* the alternative of the pattern that matches s at index i (1-based): the
\* first one in the order of the alternatives; 0 if none matches
MatchAt(pattern, s, i) ==
    LET Hit(j) == /\ i + Len(pattern[j]) - 1 <= Len(s)
                  /\ SubSeq(s, i, i + Len(pattern[j]) - 1) = pattern[j]
    IN  IF \E j \in 1..Len(pattern) : Hit(j)
        THEN CHOOSE j \in 1..Len(pattern) : Hit(j) /\ \A k \in 1..(j - 1) : ~Hit(k)
        ELSE 0

\* EMOJI_ANN_PATTERN.finditer(s) from index i on: the matches, each with
\* match.start() (0-based) and match.group()
RECURSIVE FindIter(_, _, _)
FindIter(pattern, s, i) ==
    IF i > Len(s) + 1 THEN <<>>
    ELSE LET j == MatchAt(pattern, s, i)
         IN  IF j = 0 THEN FindIter(pattern, s, i + 1)
             ELSE IF pattern[j] = <<>>
             THEN << [start |-> i - 1, symbol |-> <<>>] >> \o FindIter(pattern, s, i + 1)
             ELSE << [start |-> i - 1, symbol |-> pattern[j]] >>
                      \o FindIter(pattern, s, i + Len(pattern[j]))

\* match.start() alone: the emojis seen so far are not subtracted
PlainOffset_NoShift(start, offset) == start

\* match.start() - offset
PlainOffset(start, offset) == start - offset

\* the first loop: flat_annotations, or "ValueError" when a symbol has no label;
\* k is the match handled next, offset the length of the symbols seen so far
RECURSIVE FlatAnnotations(_, _, _, _, _)
FlatAnnotations(emoji_label, matches, k, offset, flat) ==
    IF k > Len(matches) THEN [raised |-> "", flat |-> flat]
    ELSE LET symbol == matches[k].symbol
         IN  IF ~DictHas(emoji_label, symbol)
             THEN [raised |-> "ValueError", flat |-> <<>>]
             ELSE LET tag == DictGet(emoji_label, symbol)
                      old == IF DictHas(flat, tag) THEN DictGet(flat, tag) ELSE <<>>
                  IN  FlatAnnotations(emoji_label, matches, k + 1,
                          offset + Len(symbol),
                          DictSet(flat, tag,
                                  Append(old, PlainOffset(matches[k].start, offset))))

\* len(pos) == 1: only a single emoji of a label counts as not closed
NotProperlyClosed_SingleOnly(pos) == Len(pos) = 1

\* len(pos) % 2 != 0
NotProperlyClosed(pos) == Len(pos) % 2 # 0

\* [(pos[i], pos[i + 1]) for i in range(0, len(pos), 2)]
PairUp(pos) == [i \in 1..(Len(pos) \div 2) |-> <<pos[2 * i - 1], pos[2 * i]>>]

\* the second loop: annotations from flat_annotations, from entry k on
RECURSIVE PairAnnotations(_, _, _, _, _)
PairAnnotations(label_emoji, flat, k, emojis_as_keys, anns) ==
    IF k > Len(flat) THEN [raised |-> "", annotations |-> anns]
    ELSE LET label == flat[k][1]
             pos   == flat[k][2]
         IN  IF NotProperlyClosed(pos)
             THEN [raised |-> "ValueError", annotations |-> <<>>]
             ELSE IF emojis_as_keys /\ ~DictHas(label_emoji, label)
             THEN [raised |-> "KeyError", annotations |-> <<>>]
             ELSE LET key == IF emojis_as_keys THEN DictGet(label_emoji, label) ELSE label
                      old == IF DictHas(anns, key) THEN DictGet(anns, key) ELSE <<>>
                  IN  PairAnnotations(label_emoji, flat, k + 1, emojis_as_keys,
                                      DictSet(anns, key, old \o PairUp(pos)))

\* EMOJI_ANN_PATTERN.sub("", s) from index i on
RECURSIVE SubEmpty(_, _, _)
SubEmpty(pattern, s, i) ==
    IF i > Len(s) THEN <<>>
    ELSE LET j == MatchAt(pattern, s, i)
         IN  IF j = 0 \/ pattern[j] = <<>>
             THEN <<s[i]>> \o SubEmpty(pattern, s, i + 1)
             ELSE SubEmpty(pattern, s, i + Len(pattern[j]))

\* the result of from_inline_annotations: the exception raised ("" if none),
\* with its message, the plain text and the annotations
FromInline(pattern, emoji_label, label_emoji, annotated_text, emojis_as_keys) ==
    LET matches == FindIter(pattern, annotated_text, 1)
        flat == FlatAnnotations(emoji_label, matches, 1, 0, <<>>)
        paired == PairAnnotations(label_emoji, flat.flat, 1, emojis_as_keys, <<>>)
    IN  IF flat.raised # ""
        THEN [raised |-> flat.raised, message |-> "Missing annotation mapping.",
              text |-> <<>>, annotations |-> <<>>]
        ELSE IF paired.raised # ""
        THEN [raised |-> paired.raised,
              message |-> IF paired.raised = "ValueError"
                          THEN "An annotation is not properly closed"
                          ELSE "",
              text |-> <<>>, annotations |-> <<>>]
        ELSE [raised |-> "", message |-> "",
              text |-> SubEmpty(pattern, annotated_text, 1),
              annotations |-> paired.annotations]

-----------------------------------------------------------------------------
Next ==
    \/ \E key \in Labels, value \in Values : SetItem(key, value)
    \/ \E key \in Labels : DelItem(key)

Spec == Init /\ [][Next]_vars

-----------------------------------------------------------------------------
(* Calls of the two conversions on a constructed annotator *)

\* the mapping of the tests: one emoji per label, the first of them an
\* emoji of two characters (as the pepper with its variation selector)
EMOJI_MAPPING ==
    << << <<"a">>, <<"A", "m">> >>, << <<"b">>, <<"B">> >>, << <<"c">>, <<"C">> >> >>

\* a plain text of n characters, none of them part of an emoji of EMOJI_MAPPING
PlainText(n) == [i \in 1..n |-> IF i % 2 = 1 THEN "x" ELSE "y"]

\* the offsets (start, end) with 0 <= start < end <= n
Offsets(n) == {p \in (0..n) \X (0..n) : p[1] < p[2]}

\* lists of at most k offsets
OffsetLists(n, k) == UNION {[1..j -> Offsets(n)] : j \in 0..k}

\* annotation dicts over the keys, with at most k offsets in all
RECURSIVE AnnotationDicts(_, _, _)
AnnotationDicts(keys, n, k) ==
    {<<>>} \cup
    UNION { { << <<e[1], e[2]>> >> \o d :
                d \in AnnotationDicts(keys \ {e[1]}, n, k - Len(e[2])) } :
            e \in keys \X OffsetLists(n, k) }

\* the annotated texts of at most n characters over the characters chars
MarkedTexts(chars, n) == UNION {[1..j -> chars] : j \in 0..n}

\* example_ = emoji_nlp.to_inline_annotations(plain_text, annotations)
ToInlineCall ==
    /\ pc = "to_inline"
    /\ LET r == ToInline(LABEL_EMOJI_MAPPING, EMOJI_LABEL_MAPPING, text, annotations)
       IN  /\ raised' = r.raised
           /\ ret_marked' = r.text
    /\ pc' = "to_returned"
    /\ UNCHANGED <<mapping_vars, text, annotations, marked, ret_text, ret_annotations>>

\* from_inline_annotations on the annotated text that to_inline_annotations returned
FromInlineOfResult ==
    /\ pc = "to_returned"
    /\ raised = ""
    /\ marked' = ret_marked
    /\ LET r == FromInline(EMOJI_ANN_PATTERN, EMOJI_LABEL_MAPPING, LABEL_EMOJI_MAPPING,
                           ret_marked, FALSE)
       IN  /\ raised' = r.raised
           /\ ret_text' = r.text
           /\ ret_annotations' = r.annotations
    /\ pc' = "done"
    /\ UNCHANGED <<mapping_vars, text, annotations, ret_marked>>

\* plain_text, annotations = emoji_nlp.from_inline_annotations(example)
FromInlineCall ==
    /\ pc = "from_inline"
    /\ LET r == FromInline(EMOJI_ANN_PATTERN, EMOJI_LABEL_MAPPING, LABEL_EMOJI_MAPPING,
                           marked, FALSE)
       IN  /\ raised' = r.raised
           /\ ret_text' = r.text
           /\ ret_annotations' = r.annotations
    /\ pc' = "from_returned"
    /\ UNCHANGED <<mapping_vars, text, annotations, marked, ret_marked>>

\* to_inline_annotations on the plain text and annotations that
\* from_inline_annotations returned
ToInlineOfResult ==
    /\ pc = "from_returned"
    /\ raised = ""
    /\ text' = ret_text
    /\ annotations' = ret_annotations
    /\ LET r == ToInline(LABEL_EMOJI_MAPPING, EMOJI_LABEL_MAPPING, ret_text,
                         ret_annotations)
       IN  /\ raised' = r.raised
           /\ ret_marked' = r.text
    /\ pc' = "done"
    /\ UNCHANGED <<mapping_vars, marked, ret_text, ret_annotations>>

\* a caller about to hand plain and anns to to_inline_annotations
StartToInline(emoji_mapping, plain, anns) ==
    /\ Construct(emoji_mapping)
    /\ pc = "to_inline"
    /\ raised = ""
    /\ text = plain
    /\ annotations = anns
    /\ marked = <<>>
    /\ ret_marked = <<>>
    /\ ret_text = <<>>
    /\ ret_annotations = <<>>

\* a caller about to hand annotated_text to from_inline_annotations
StartFromInline(emoji_mapping, annotated_text) ==
    /\ Construct(emoji_mapping)
    /\ pc = "from_inline"
    /\ raised = ""
    /\ text = <<>>
    /\ annotations = <<>>
    /\ marked = annotated_text
    /\ ret_marked = <<>>
    /\ ret_text = <<>>
    /\ ret_annotations = <<>>

NextTo == ToInlineCall \/ FromInlineOfResult

NextFrom == FromInlineCall \/ ToInlineOfResult

\* text and annotations keyed by labels, to annotated text and back
InitRT ==
    \E n \in 0..TextLen :
        \E anns \in AnnotationDicts(Labels, n, MaxSpans) :
            StartToInline(EMOJI_MAPPING, PlainText(n), anns)

SpecRT == InitRT /\ [][NextTo]_vars

\* the same with one more offset
InitWide ==
    \E n \in 0..TextLen :
        \E anns \in AnnotationDicts(Labels, n, WideSpans) :
            StartToInline(EMOJI_MAPPING, PlainText(n), anns)

SpecWide == InitWide /\ [][NextTo]_vars

\* annotations keyed by one or two of the labels, the emojis and an unknown key
AnnotationKeys == Labels \cup {e[2] : e \in {EMOJI_MAPPING[i] : i \in 1..Len(EMOJI_MAPPING)}}
                         \cup {UnknownKey}

InitKeys ==
    \E keys \in {ks \in SUBSET AnnotationKeys : Cardinality(ks) <= 2} :
        \E anns \in AnnotationDicts(keys, KeyTextLen, KeySpans) :
            StartToInline(EMOJI_MAPPING, PlainText(KeyTextLen), anns)

SpecKeys == InitKeys /\ [][NextTo]_vars

\* annotated text to text and annotations and back
MarkedChars == {"x", "A", "m", "B"}

InitParse ==
    \E annotated_text \in MarkedTexts(MarkedChars, MarkedLen) :
        StartFromInline(EMOJI_MAPPING, annotated_text)

SpecParse == InitParse /\ [][NextFrom]_vars

\* mappings in which one emoji is the beginning of another, in both orders
PrefixMappings ==
    { << << <<"a">>, <<"A">> >>, << <<"b">>, <<"A", "m">> >> >>,
      << << <<"b">>, <<"A", "m">> >>, << <<"a">>, <<"A">> >> >> }

ScanChars == {"x", "A", "m"}

InitScan ==
    \E emoji_mapping \in PrefixMappings :
        \E annotated_text \in MarkedTexts(ScanChars, MarkedLen) :
            StartFromInline(emoji_mapping, annotated_text)

SpecScan == InitScan /\ [][NextFrom]_vars

-----------------------------------------------------------------------------
(* Properties of the mapping *)

\* no two labels of the dict d have the same emoji
Injective(d) ==
    \A i, j \in 1..Len(d) : i # j => d[i][2] # d[j][2]

\* the dict el maps an emoji to a label exactly when the dict le maps that label to that emoji
InverseViews(le, el) ==
    /\ \A i \in 1..Len(le) : DictHas(el, le[i][2]) /\ DictGet(el, le[i][2]) = le[i][1]
    /\ \A i \in 1..Len(el) : DictHas(le, el[i][2]) /\ DictGet(le, el[i][2]) = el[i][1]

\* the emojis the pattern scans for
PatternEmojis == {EMOJI_ANN_PATTERN[i] : i \in 1..Len(EMOJI_ANN_PATTERN)} \ {<<>>}

\* the emojis of the mapping
MappingEmojis == {LABEL_EMOJI_MAPPING[i][2] : i \in 1..Len(LABEL_EMOJI_MAPPING)}

\* from_inline_annotations finds the span of label in a text annotated with emoji
Recognised(label, emoji) ==
    LET r == FromInline(EMOJI_ANN_PATTERN, EMOJI_LABEL_MAPPING, LABEL_EMOJI_MAPPING,
                        emoji \o <<"y">> \o emoji, FALSE)
    IN  /\ r.raised = ""
        /\ r.text = <<"y">>
        /\ r.annotations = << <<label, << <<0, 1>> >> >> >>

\* from_inline_annotations finds no span in a text annotated with emoji
NotRecognised(emoji) ==
    FromInline(EMOJI_ANN_PATTERN, EMOJI_LABEL_MAPPING, LABEL_EMOJI_MAPPING,
               emoji \o <<"y">> \o emoji, FALSE).annotations = <<>>

\* to_inline_annotations takes emoji as the key of an annotation
AcceptedAsKey(emoji) ==
    ToInline(LABEL_EMOJI_MAPPING, EMOJI_LABEL_MAPPING, <<"y">>,
             << <<emoji, << <<0, 1>> >> >> >>)
        = [raised |-> "", text |-> emoji \o <<"y">> \o emoji]

\* C4: Mapping injectivity.  In every state reached by constructing the
\* mapping and applying set and delete operations, no two distinct labels map
\* to the same emoji (a set or a construction that would make two labels
\* share an emoji raises instead).
C4_MappingInjective ==
    pc = "ready" => Injective(LABEL_EMOJI_MAPPING)

\* C5: Synchronized views.  After construction and after every set or delete,
\* whenever the labels have distinct emojis, EMOJI_LABEL_MAPPING is the inverse
\* of LABEL_EMOJI_MAPPING, the pattern scans for exactly the emojis of the
\* mapping, every emoji of the mapping is recognised by from_inline_annotations
\* and accepted as a key by to_inline_annotations, and an emoji of no label is
\* not recognised.
C5_ViewsSynchronized ==
    (pc = "ready" /\ Injective(LABEL_EMOJI_MAPPING)) =>
        /\ InverseViews(LABEL_EMOJI_MAPPING, EMOJI_LABEL_MAPPING)
        /\ PatternEmojis = MappingEmojis
        /\ \A i \in 1..Len(LABEL_EMOJI_MAPPING) :
               /\ Recognised(LABEL_EMOJI_MAPPING[i][1], LABEL_EMOJI_MAPPING[i][2])
               /\ AcceptedAsKey(LABEL_EMOJI_MAPPING[i][2])
        /\ \A emoji \in {<<"B">>, <<"C">>} \ MappingEmojis : NotRecognised(emoji)

-----------------------------------------------------------------------------
(* Reading an annotated text, for the properties *)

\* the emojis of the dict label -> emoji
EmojisOf(label_emoji) == {label_emoji[i][2] : i \in 1..Len(label_emoji)}

\* the emojis that stand at index i of s
EmojisAt(emojis, s, i) ==
    {e \in emojis : i + Len(e) - 1 <= Len(s) /\ SubSeq(s, i, i + Len(e) - 1) = e}

\* the longest emoji that stands at index i of s
LongestAt(emojis, s, i) ==
    CHOOSE e \in EmojisAt(emojis, s, i) : \A f \in EmojisAt(emojis, s, i) : Len(f) <= Len(e)

\* reference scanner: from index i on, the emojis met from left to right, each
\* with its position: its index less the length of the emojis consumed before
\* it; at each index the longest emoji that stands there is consumed
RECURSIVE RefScan(_, _, _, _)
RefScan(emojis, s, i, consumed) ==
    IF i > Len(s) THEN <<>>
    ELSE IF EmojisAt(emojis, s, i) = {} THEN RefScan(emojis, s, i + 1, consumed)
    ELSE LET e == LongestAt(emojis, s, i)
         IN  << [emoji |-> e, pos |-> (i - 1) - consumed] >>
                 \o RefScan(emojis, s, i + Len(e), consumed + Len(e))

\* reference scanner: s without the emojis it consumes
RECURSIVE RefPlain(_, _, _)
RefPlain(emojis, s, i) ==
    IF i > Len(s) THEN <<>>
    ELSE IF EmojisAt(emojis, s, i) = {} THEN <<s[i]>> \o RefPlain(emojis, s, i + 1)
    ELSE RefPlain(emojis, s, i + Len(LongestAt(emojis, s, i)))

\* the emojis of the annotated text that to_inline_annotations returned, in textual order
ReturnedEmojis == RefScan(EmojisOf(LABEL_EMOJI_MAPPING), ret_marked, 1, 0)

\* the <<label, offset>> pairs of an annotation dict
SpansOf(anns) ==
    UNION { { <<anns[i][1], anns[i][2][j]>> : j \in 1..Len(anns[i][2]) } : i \in 1..Len(anns) }

EmojiOf(label) == DictGet(LABEL_EMOJI_MAPPING, label)

-----------------------------------------------------------------------------
(* Properties of to_inline_annotations and of the round trip *)

\* each label has at least one offset, and the offsets of a label are in
\* ascending order and do not overlap each other
AscendingPerLabel(anns) ==
    /\ anns # <<>>
    /\ \A i \in 1..Len(anns) :
           /\ anns[i][2] # <<>>
           /\ \A j \in 1..(Len(anns[i][2]) - 1) : anns[i][2][j][2] <= anns[i][2][j + 1][1]

RoundTripExact ==
    /\ raised = ""
    /\ ret_text = text
    /\ DictEq(ret_annotations, annotations)

Abutting(anns, i, j) ==
    /\ Len(anns) = 2
    /\ {i, j} = {1, 2}
    /\ Len(anns[1][2]) = 1
    /\ Len(anns[2][2]) = 1
    /\ anns[i][2][1][2] = anns[j][2][1][1]

\* the text with the emoji e around the span p and the emoji f around the span q that follows it
TwoSpansMarked(plain, e, p, f, q) ==
    SubSeq(plain, 1, p[1]) \o e \o SubSeq(plain, p[1] + 1, p[2]) \o e
        \o f \o SubSeq(plain, q[1] + 1, q[2]) \o f \o SubSeq(plain, q[2] + 1, Len(plain))

\* C2: Tie-break for two spans.  When the annotations are exactly two spans of
\* different labels and one ends at the offset at which the other starts,
\* to_inline_annotations returns the text with the closing emoji of the first
\* span before the opening emoji of the second, and returns the same for the
\* other iteration order of the keys.
C2_TwoSpansTieBreak ==
    \A i, j \in 1..2 :
        (pc = "to_returned" /\ Abutting(annotations, i, j)) =>
            /\ raised = ""
            /\ ret_marked = TwoSpansMarked(text,
                                EmojiOf(annotations[i][1]), annotations[i][2][1],
                                EmojiOf(annotations[j][1]), annotations[j][2][1])
            /\ ToInline(LABEL_EMOJI_MAPPING, EMOJI_LABEL_MAPPING, text,
                        <<annotations[2], annotations[1]>>).text = ret_marked

\* C2 witness: the span that ends at the shared offset is the second key of the dict
C2_Witness ==
    /\ pc = "to_returned"
    /\ raised = ""
    /\ Abutting(annotations, 2, 1)

\* the indices in ReturnedEmojis of the emoji e at the offset o
IndicesAt(e, o) ==
    {k \in 1..Len(ReturnedEmojis) : ReturnedEmojis[k].emoji = e /\ ReturnedEmojis[k].pos = o}

\* the spans of the annotation dict are pairwise disjoint (they may share a boundary)
PairwiseDisjoint(anns) ==
    /\ \A i \in 1..Len(anns) : \A j, k \in 1..Len(anns[i][2]) :
           j # k => anns[i][2][j] # anns[i][2][k]
    /\ \A p, q \in SpansOf(anns) : p = q \/ p[2][2] <= q[2][1] \/ q[2][2] <= p[2][1]

\* C3: Closings precede openings in general.  For every annotation set and
\* every offset at which one span ends and a span of a different label
\* starts, the emoji of the ending span stands before the emoji of the
\* starting span at that offset.  Stated for the annotation sets whose spans
\* are pairwise disjoint, where no other span lies around the offset.
C3_ClosingsPrecedeOpenings ==
    (pc = "to_returned" /\ raised = "" /\ PairwiseDisjoint(annotations)) =>
        \A p, q \in SpansOf(annotations) :
            (p[1] # q[1] /\ p[2][2] = q[2][1]) =>
                \E k \in IndicesAt(EmojiOf(p[1]), p[2][2]) :
                    \E l \in IndicesAt(EmojiOf(q[1]), p[2][2]) : k < l

\* every label has one span, and two spans are disjoint or one lies in the other
DisjointOrNested(anns) ==
    /\ \A i \in 1..Len(anns) : Len(anns[i][2]) = 1
    /\ \A p, q \in SpansOf(anns) :
           \/ p[2][2] <= q[2][1]
           \/ q[2][2] <= p[2][1]
           \/ p[2][1] <= q[2][1] /\ q[2][2] <= p[2][2]
           \/ q[2][1] <= p[2][1] /\ p[2][2] <= q[2][2]

\* C9: Canonical nesting.  For every annotation set whose spans carry pairwise
\* different labels and are pairwise disjoint or nested, no two spans
\* interleave in the returned text as open-A, open-B, close-A, close-B.
C9_CanonicalNesting ==
    (pc = "to_returned" /\ raised = "" /\ DisjointOrNested(annotations)) =>
        LET m == ReturnedEmojis
        IN  \A i, j, k, l \in 1..Len(m) :
                (i < j /\ j < k /\ k < l) =>
                    ~(m[i].emoji = m[k].emoji /\ m[j].emoji = m[l].emoji
                      /\ m[i].emoji # m[j].emoji)

-----------------------------------------------------------------------------
(* Properties of the keys of the annotations *)

LabelsOfMapping == KeySet(LABEL_EMOJI_MAPPING)

EmojisOfMapping == EmojisOf(LABEL_EMOJI_MAPPING)

\* the label of an emoji of the mapping
LabelOf(emoji) ==
    LABEL_EMOJI_MAPPING[CHOOSE i \in 1..Len(LABEL_EMOJI_MAPPING) :
                            LABEL_EMOJI_MAPPING[i][2] = emoji][1]

\* the annotations with every key that is a label replaced by its emoji
KeyedByEmojis(anns) ==
    [i \in 1..Len(anns) |->
        <<IF anns[i][1] \in LabelsOfMapping THEN EmojiOf(anns[i][1]) ELSE anns[i][1],
          anns[i][2]>>]

\* the annotations with every key that is an emoji replaced by its label
KeyedByLabels(anns) ==
    [i \in 1..Len(anns) |->
        <<IF anns[i][1] \in EmojisOfMapping THEN LabelOf(anns[i][1]) ELSE anns[i][1],
          anns[i][2]>>]

SameForEitherKeys ==
    /\ ToInline(LABEL_EMOJI_MAPPING, EMOJI_LABEL_MAPPING, text,
                KeyedByEmojis(annotations)).text = ret_marked
    /\ ToInline(LABEL_EMOJI_MAPPING, EMOJI_LABEL_MAPPING, text,
                KeyedByLabels(annotations)).text = ret_marked

\* C6 as claimed: Annotation key resolution.  to_inline_annotations raises the
\* error of an unknown key if and only if some key is neither a label nor an
\* emoji of the mapping, and when it returns, it returns what it returns for
\* the same annotations keyed by emojis (and keyed by labels).
C6_UnknownKeyOnly ==
    pc = "to_returned" =>
        /\ raised = "ValueError" <=>
               \E i \in 1..Len(annotations) :
                   annotations[i][1] \notin LabelsOfMapping \cup EmojisOfMapping
        /\ raised = "" => SameForEitherKeys

\* C6 as amended: to_inline_annotations raises the error of an unknown key if
\* and only if the keys are neither all labels nor all emojis of the mapping
\* (some key is unknown, or labels and emojis are mixed), and when it returns,
\* it returns what it returns for the same annotations keyed by emojis (and
\* keyed by labels).
C6_AllLabelsOrAllEmojis ==
    pc = "to_returned" =>
        /\ raised = "ValueError" <=>
               /\ \E i \in 1..Len(annotations) : annotations[i][1] \notin LabelsOfMapping
               /\ \E i \in 1..Len(annotations) : annotations[i][1] \notin EmojisOfMapping
        /\ raised = "" => SameForEitherKeys

\* C6 witness: annotations of two spans keyed by emojis were accepted
C6_Witness ==
    /\ pc = "to_returned"
    /\ raised = ""
    /\ Len(annotations) = 2
    /\ \A i \in 1..2 : annotations[i][1] \in EmojisOfMapping /\ Len(annotations[i][2]) = 1

-----------------------------------------------------------------------------
(* Properties of from_inline_annotations *)

\* the number of places of s at which emoji stands
Occurrences(emoji, s) ==
    Cardinality({i \in 1..Len(s) :
                    i + Len(emoji) - 1 <= Len(s) /\ SubSeq(s, i, i + Len(emoji) - 1) = emoji})

\* the positions of emoji in s by the reference scanner, from left to right
RefPositions(emojis, emoji, s) ==
    LET hits == SelectSeq(RefScan(emojis, s, 1, 0), LAMBDA t : t.emoji = emoji)
    IN  [i \in 1..Len(hits) |-> hits[i].pos]

\* the positions pos paired as (pos[0], pos[1]), (pos[2], pos[3]), ...
ConsecutivePairs(pos) ==
    [i \in 1..(Len(pos) \div 2) |-> <<pos[2 * i - 1], pos[2 * i]>>]

\* the returned annotations are, for every label, the reference positions of its emoji, paired
PairedAsReference ==
    /\ KeySet(ret_annotations) \subseteq LabelsOfMapping
    /\ \A label \in LabelsOfMapping :
           LET pos == RefPositions(EmojisOfMapping, EmojiOf(label), marked)
           IN  IF pos = <<>> THEN ~DictHas(ret_annotations, label)
               ELSE /\ DictHas(ret_annotations, label)
                    /\ DictGet(ret_annotations, label) = ConsecutivePairs(pos)

\* C7: Unbalanced detection.  from_inline_annotations raises the error of an
\* annotation not properly closed if and only if the emoji of some label
\* occurs an odd number of times in the annotated text; otherwise it returns,
\* and the positions of each label are paired consecutively in the order met.
C7_UnbalancedDetection ==
    pc = "from_returned" =>
        /\ raised = "ValueError" <=>
               \E label \in LabelsOfMapping : Occurrences(EmojiOf(label), marked) % 2 = 1
        /\ raised # "ValueError" => raised = "" /\ PairedAsReference

\* C7 witness: a label was returned with two spans paired from four positions,
\* around characters of the text
C7_Witness ==
    /\ pc = "from_returned"
    /\ raised = ""
    /\ ret_text # <<>>
    /\ \E k \in KeySet(ret_annotations) :
           /\ Len(DictGet(ret_annotations, k)) = 2
           /\ DictGet(ret_annotations, k)[1][2] < DictGet(ret_annotations, k)[2][1]

\* every emoji occurs an even number of times and no two emojis stand at the same offset
BalancedAndApart(s) ==
    LET toks == RefScan(EmojisOfMapping, s, 1, 0)
    IN  /\ \A e \in EmojisOfMapping : Occurrences(e, s) % 2 = 0
        /\ \A i, j \in 1..Len(toks) : i # j => toks[i].pos # toks[j].pos

\* C8: Reverse round-trip.  For every annotated text in which the emojis of
\* each label are balanced and no two emojis stand at the same offset,
\* to_inline_annotations of what from_inline_annotations returned is the
\* annotated text, character for character.
C8_ReverseRoundTrip ==
    BalancedAndApart(marked) =>
        /\ pc = "from_returned" => raised = ""
        /\ pc = "done" => raised = "" /\ ret_marked = marked

\* C10: Parser scan against the reference scanner.  For every annotated text
\* and every mapping (one emoji possibly the beginning of another),
\* from_inline_annotations returns what the reference scanner gives: the
\* longest emoji at each position whatever the order of the labels, its
\* position, and the text without exactly those occurrences.
C10_LongestMatchScan ==
    pc = "from_returned" =>
        IF \E label \in LabelsOfMapping :
               Len(RefPositions(EmojisOfMapping, EmojiOf(label), marked)) % 2 = 1
        THEN raised = "ValueError"
        ELSE /\ raised = ""
             /\ ret_text = RefPlain(EmojisOfMapping, marked, 1)
             /\ PairedAsReference

\* no label of the annotation dict has an offset: the dict is empty, or every
\* offset list in it is empty
NoOffsets(anns) == \A i \in 1..Len(anns) : anns[i][2] = <<>>

\* C11: Empty annotations.  to_inline_annotations(text, annotations) with an
\* empty annotation dict, or with one in which every label has an empty offset
\* list, returns normally and returns the text unchanged: no emoji inserted,
\* no error raised.
C11_EmptyAnnotations ==
    (pc = "to_returned" /\ NoOffsets(annotations)) =>
        /\ raised = ""
        /\ ret_marked = text

====
